---- MODULE Spec2Model ----
(***************************************************************************)
(* Session-token subsystem of posted-server: AuthService (auth/auth.rs)    *)
(* switching between RedisAuth (auth/redis_auth.rs, on top of Cache,       *)
(* cache/cache.rs) and OfflineAuth (auth/backup_auth.rs).                  *)
(*                                                                         *)
(* A call of generate_user_token or validate is one atomic action: the     *)
(* request handlers hold the Mutex<AuthService> guard for the whole call   *)
(* (api/api.rs:108, :464), so calls never interleave.  The Redis server    *)
(* and the network are the environment: the server is reachable or not     *)
(* (up), may change between and during calls, a pipeline may be cut off    *)
(* after any number of its commands, and entries expire with time.         *)
(***************************************************************************)
EXTENDS Integers, Sequences, FiniteSets, TLC

VARIABLES
    store,      \* AuthService.store: "Online" (RedisAuth) or "Offline" (OfflineAuth)
    misses,     \* AuthService.misses
    tokens,     \* OfflineAuth.tokens: user id -> uuid (NoToken: no mapping)
    db,         \* content of the Redis server: key string -> [value, ttl]
    up,         \* the Redis server accepts connections
    next,       \* number of uuids Uuid::new_v4 has produced so far
    issuedTo,   \* history: uuid -> user id it was returned for (0: none)
    last,       \* history: the most recent generate_user_token/validate call,
                \* NoCall once time has passed since
    ccall,      \* the Cache method called directly (CacheSpec), NoCacheCall if none
    pc,         \* request handler -> where its task stands (HandlerSpec)
    lock,       \* holder of the Mutex<AuthService> (main.rs:27), 0 if free
    thread,     \* handler whose poll blocks the one worker thread, 0 if none
    elapsed,    \* seconds since the try_connect in progress began
    req,        \* request handler -> the call its request makes
    names       \* user id -> username of the account (RedisAuthSpec: EmptyStr
                \* until the account is created)

\* what the direct Cache calls and the request handlers add to the state
aux == <<ccall, pc, lock, thread, elapsed, req, names>>

vars == <<store, misses, tokens, db, up, next, issuedTo, last, aux>>

----------------------------------------------------------------------------
(* Bounds                                                                  *)

MaxUsers == 2
MaxTokens == 2
MaxMisses == 2
MaxStrs == 2
MaxEntries == 2
MaxHandlers == 2
MaxElapsed == 2

UserIds == 1..MaxUsers
Uuids == 1..MaxTokens
NoToken == 0
Handlers == 1..MaxHandlers

----------------------------------------------------------------------------
(* Strings.  A string is a sequence of atoms <<kind, n>>; "!" is the atom  *)
(* Bang, so that format!("{}!{}", a, b) and split_once("!") are what they  *)
(* are in the source.                                                      *)

Bang == <<"bang", 0>>
Txt(i) == << <<"txt", i>> >>

\* u64::to_string
u64_to_string(u) == << <<"dec", u>> >>

\* Uuid's Display: the hyphenated lower-case form
Uuid_to_string(t) == << <<"uuid", t>> >>

\* another form Uuid::parse_str accepts: 32 hex digits without hyphens
Uuid_simple(t) == << <<"uuidsimple", t>> >>

EmptyStr == << >>
NotAUuid == Txt(0)

\* format!("{}!{}", a, b)
Format(a, b) == a \o <<Bang>> \o b

\* Uuid::parse_str: NoToken stands for Err
Uuid_parse_str(s) ==
    IF Len(s) = 1 /\ s[1][1] \in {"uuid", "uuidsimple"} THEN s[1][2] ELSE NoToken

\* str::parse::<u64>: 0 stands for Err (no id of the model is 0)
parse_u64(s) ==
    IF Len(s) = 1 /\ s[1][1] = "dec" THEN s[1][2] ELSE 0

\* the username of account u (models.rs AccountFromDB); usernames are any
\* non-empty string (api/api.rs:52), the one of account 2 contains a "!"
Username(u) == IF u = 2 THEN Txt(2) \o <<Bang>> \o Txt(2) ELSE Txt(u)

\* the token strings a client may send when nxt uuids have been generated:
\* a generated uuid as it was returned, the latest one in the other form,
\* a uuid nobody was given, and strings that are no uuid
TokenStrs(nxt) ==
    {Uuid_to_string(t) : t \in {x \in Uuids : x <= nxt + 1}}
    \cup {Uuid_simple(t) : t \in {x \in Uuids : x = nxt}}
    \cup {EmptyStr, NotAUuid}

----------------------------------------------------------------------------
(* cache/cache.rs                                                          *)

Entry(key, value, expiry_sec) == [key |-> key, value |-> value, expiry_sec |-> expiry_sec]

\* one SET command of a pipeline
SetCmd(key, value, ex, nx) == [key |-> key, value |-> value, ex |-> ex, nx |-> nx]

\* set_ex sending SET .. NX
set_ex_keep(pipe, entry) ==
    pipe \o <<SetCmd(entry.key, entry.value, entry.expiry_sec, TRUE)>>

set_ex(pipe, entry) ==
    pipe \o <<SetCmd(entry.key, entry.value, entry.expiry_sec, FALSE)>>

\* set_ex_symmetric without its second SET
set_ex_symmetric_forward(pipe, entry) ==
    pipe \o <<SetCmd(entry.key, entry.value, entry.expiry_sec, FALSE)>>

set_ex_symmetric(pipe, entry) ==
    pipe \o <<SetCmd(entry.key, entry.value, entry.expiry_sec, FALSE),
              SetCmd(entry.value, entry.key, entry.expiry_sec, FALSE)>>

\* set_ex_nx without the NX argument
set_ex_nx_plain(pipe, entry) ==
    pipe \o <<SetCmd(entry.key, entry.value, entry.expiry_sec, FALSE)>>

set_ex_nx(pipe, entry) ==
    pipe \o <<SetCmd(entry.key, entry.value, entry.expiry_sec, TRUE)>>

set_ex_nx_symmetric(pipe, entry) ==
    pipe \o <<SetCmd(entry.key, entry.value, entry.expiry_sec, TRUE),
              SetCmd(entry.value, entry.key, entry.expiry_sec, TRUE)>>

add_to_pipe(pipe, entry, symmetric, overwrite) ==
    CASE symmetric /\ overwrite     -> set_ex_symmetric(pipe, entry)
      [] symmetric /\ ~overwrite    -> set_ex_nx_symmetric(pipe, entry)
      [] ~symmetric /\ overwrite    -> set_ex(pipe, entry)
      [] ~symmetric /\ ~overwrite   -> set_ex_nx(pipe, entry)

\* the server executing SET key value EX ex [NX]
ExecCmd(d, c) ==
    IF c.nx /\ c.key \in DOMAIN d
    THEN d
    ELSE [k \in DOMAIN d \cup {c.key} |->
            IF k = c.key THEN [value |-> c.value, ttl |-> c.ex] ELSE d[k]]

\* the server executing the first n commands of a pipeline
RECURSIVE ExecPipe(_, _, _)
ExecPipe(d, pipe, n) ==
    IF n = 0 \/ pipe = << >>
    THEN d
    ELSE ExecPipe(ExecCmd(d, Head(pipe)), Tail(pipe), n - 1)

RECURSIVE BuildPipe(_, _, _, _)
BuildPipe(pipe, entries, symmetric, overwrite) ==
    IF entries = << >>
    THEN pipe
    ELSE BuildPipe(add_to_pipe(pipe, Head(entries), symmetric, overwrite),
                   Tail(entries), symmetric, overwrite)

Min(a, b) == IF a < b THEN a ELSE b

\* Cache::set_multiple.  conn: get_async_conn succeeded; applied: how many
\* commands the server executed before the query ended (fewer than all of
\* them: query_async returned an error, which the code discards).
set_multiple(d, entries, symmetric, overwrite, conn, applied) ==
    IF ~conn
    THEN [res |-> "Err", db |-> d]
    ELSE LET pipe == BuildPipe(<< >>, entries, symmetric, overwrite)
         IN  [res |-> "Ok", db |-> ExecPipe(d, pipe, Min(applied, Len(pipe)))]

\* Cache::set_single: as set_multiple for one entry, but the error of
\* query_async is returned
set_single(d, entry, symmetric, overwrite, conn, applied) ==
    IF ~conn
    THEN [res |-> "Err", db |-> d]
    ELSE LET pipe == add_to_pipe(<< >>, entry, symmetric, overwrite)
         IN  [res |-> IF applied >= Len(pipe) THEN "Ok" ELSE "Err",
              db |-> ExecPipe(d, pipe, Min(applied, Len(pipe)))]

\* From<RedisError> for CacheErr (cache/error.rs); kind is what the failed
\* command met: "dropped" (connection dropped / unrecoverable), "nil" (a nil
\* reply does not convert to String: TypeError), "other"
CacheErr_from(kind) ==
    CASE kind = "dropped" -> "ConnectionLost"
      [] kind = "nil"     -> "NilResponse"
      [] OTHER            -> "RedisErr"

\* Cache::get.  net: "noconn" (get_async_conn failed), "dropped", "other"
\* (the GET failed), "ok" (the server answered)
Cache_get(d, key, net) ==
    CASE net = "noconn" -> [err |-> "AsyncConnFailure", value |-> EmptyStr]
      [] net = "ok" /\ key \in DOMAIN d -> [err |-> "None", value |-> d[key].value]
      [] net = "ok" /\ key \notin DOMAIN d -> [err |-> CacheErr_from("nil"), value |-> EmptyStr]
      [] OTHER -> [err |-> CacheErr_from(net), value |-> EmptyStr]

\* Cache::get_token_by_user_id (cache.rs:146-153).  The key is the decimal
\* form of the u64; every error of the GET, the nil reply for an absent key
\* among them, is Err(()); a value that is no uuid makes unwrap panic.
get_token_by_user_id(d, key, net) ==
    LET k == u64_to_string(key)
    IN  IF net # "ok" \/ k \notin DOMAIN d
        THEN [res |-> "Err", uuid |-> NoToken]
        ELSE IF Uuid_parse_str(d[k].value) = NoToken
        THEN [res |-> "panic", uuid |-> NoToken]
        ELSE [res |-> "Ok", uuid |-> Uuid_parse_str(d[k].value)]

----------------------------------------------------------------------------
(* auth/backup_auth.rs                                                     *)

\* OfflineAuth::new
OfflineAuth_new == [u \in UserIds |-> NoToken]

\* OfflineAuth::generate_for_user leaving the new entry alone in the map
OfflineAuth_generate_for_user_alone(reg, user_id, uuid) ==
    [v \in UserIds |-> IF v = user_id THEN uuid ELSE NoToken]

\* OfflineAuth::generate_for_user with uuid the value of Uuid::new_v4()
OfflineAuth_generate_for_user(reg, user_id, uuid) ==
    [reg EXCEPT ![user_id] = uuid]

\* OfflineAuth::validate with the two arms of the match exchanged
OfflineAuth_validate_swapped(reg, user_id, token) ==
    IF reg[user_id] # NoToken THEN FALSE ELSE reg[user_id] = token

\* OfflineAuth::validate
OfflineAuth_validate(reg, user_id, token) ==
    IF reg[user_id] # NoToken THEN reg[user_id] = token ELSE FALSE

----------------------------------------------------------------------------
(* auth/redis_auth.rs                                                      *)

DAY_IN_SECONDS == 60 * 60 * 12

create_token_to_user_entry(token, username, user_id) ==
    Entry(Uuid_to_string(token), Format(username, u64_to_string(user_id)), DAY_IN_SECONDS)

create_user_to_token_entry(username, token, user_id) ==
    Entry(username, Format(Uuid_to_string(token), u64_to_string(user_id)), DAY_IN_SECONDS)

\* index of the first "!" of s, 0 if there is none
RECURSIVE FirstBang(_, _)
FirstBang(s, i) ==
    IF i > Len(s) THEN 0
    ELSE IF s[i] = Bang THEN i
    ELSE FirstBang(s, i + 1)

\* separate_token_result
separate_token_result(value) ==
    LET i == FirstBang(value, 1)
        left == SubSeq(value, 1, i - 1)
        right == SubSeq(value, i + 1, Len(value))
    IN  IF i = 0 THEN [ok |-> FALSE, name |-> EmptyStr, id |-> 0]
        ELSE IF left = << >> \/ right = << >> \/ FirstBang(right, 1) # 0
             THEN [ok |-> FALSE, name |-> EmptyStr, id |-> 0]
        ELSE IF parse_u64(right) = 0
             THEN [ok |-> FALSE, name |-> EmptyStr, id |-> 0]
        ELSE [ok |-> TRUE, name |-> left, id |-> parse_u64(right)]

\* RedisAuth::generate_for_user submitting the token to user entry alone
RedisAuth_generate_for_user_token_only(d, user_id, username, uuid, conn, applied) ==
    LET token_to_user == create_token_to_user_entry(uuid, username, user_id)
        r == set_multiple(d, <<token_to_user>>, FALSE, TRUE, conn, applied)
    IN  [ok |-> r.res = "Ok", db |-> r.db]

\* RedisAuth::generate_for_user with uuid the value of Uuid::new_v4()
RedisAuth_generate_for_user(d, user_id, username, uuid, conn, applied) ==
    LET token_to_user == create_token_to_user_entry(uuid, username, user_id)
        user_to_token == create_user_to_token_entry(username, uuid, user_id)
        r == set_multiple(d, <<token_to_user, user_to_token>>, FALSE, TRUE, conn, applied)
    IN  [ok |-> r.res = "Ok", db |-> r.db]

\* RedisAuth::validate_username: "Ok(true)", "Ok(false)" or "Err(())"
validate_username(d, username, token, net) ==
    LET g == Cache_get(d, Uuid_to_string(token), net)
        p == separate_token_result(g.value)
    IN  CASE g.err = "NilResponse" -> "Ok(false)"
          [] g.err # "None"        -> "Err(())"
          [] ~p.ok                 -> "Err(())"
          [] p.name = username     -> "Ok(true)"
          [] OTHER                 -> "Ok(false)"

\* RedisAuth::validate (redis_auth.rs:41-47): "Ok(true)", "Ok(false)",
\* "Err(())" or "panic"
RedisAuth_validate(d, user_id, token, net) ==
    LET r == get_token_by_user_id(d, user_id, net)
    IN  CASE r.res = "Err"   -> "Err(())"
          [] r.res = "panic" -> "panic"
          [] OTHER           -> IF r.uuid = token THEN "Ok(true)" ELSE "Ok(false)"

----------------------------------------------------------------------------
(* auth/auth.rs                                                            *)

MAX_CONNECT_TIME == 1
RECONNECT_FREQUENCY == 1
MIGRATE_EXPIRY_SEC == 120

\* the log events of auth.rs, by the line of the statement
LogAttempt == <<"info:40 Offline & re-connect frequency met", "info:41 Attempting to (re)connect">>
LogMigrateFailed == "warn:46 attempted but failed to migrate to Redis server"
LogReconnected == "info:51 re-connected and migrated to Redis server"
LogReconnectFailed == "info:53 failed to re-connect"
LogSwitchOffline == "warn:104 Switching to OfflineAuth"

\* try_connect answering Ok whatever Cache::new returned
try_connect_always(reach) == "Ok"

\* try_connect: Cache::new answers Ok iff check_connection() is true
try_connect(reach) == IF reach THEN "Ok" ELSE "Err"

\* the entries migrate_to_online builds; ord is the order in which the
\* HashMap iterator yields the user ids that have a token
migrate_entries(reg, ord) ==
    [i \in 1..Len(ord) |->
        Entry(u64_to_string(ord[i]), Uuid_to_string(reg[ord[i]]), MIGRATE_EXPIRY_SEC)]

\* migrate_to_online
migrate_to_online(reg, d, ord, conn, applied) ==
    LET r == set_multiple(d, migrate_entries(reg, ord), FALSE, TRUE, conn, applied)
    IN  [ok |-> r.res = "Ok", db |-> r.db]

\* maybe_reconnect switching to Online before it looks at the result of
\* migrate_to_online
maybe_reconnect_promote_first(sv, net) ==
    IF sv.misses % RECONNECT_FREQUENCY # 0
    THEN [sv EXCEPT !.reconn = "none"]
    ELSE IF sv.store # "Offline"
    THEN [sv EXCEPT !.reconn = "none", !.log = LogAttempt]
    ELSE IF try_connect(net.c1) # "Ok"
    THEN [sv EXCEPT !.reconn = "noconn", !.reach = FALSE,
               !.log = LogAttempt \o <<LogReconnectFailed>>]
    ELSE LET m == migrate_to_online(sv.tokens, sv.db, net.ord, net.c2, net.a2)
         IN  [sv EXCEPT !.store = "Online", !.misses = 0,
                        !.tokens = OfflineAuth_new, !.db = m.db,
                        !.reconn = IF ~m.ok THEN "nomigrate"
                                   ELSE IF net.a2 >= Len(net.ord) THEN "ok" ELSE "cut",
                        !.reach = m.ok,
                        !.log = LogAttempt \o <<IF m.ok THEN LogReconnected
                                                ELSE LogMigrateFailed>>]

\* maybe_reconnect resetting misses when try_connect failed
maybe_reconnect_reset(sv, net) ==
    IF sv.misses % RECONNECT_FREQUENCY # 0
    THEN [sv EXCEPT !.reconn = "none"]
    ELSE IF sv.store # "Offline"
    THEN [sv EXCEPT !.reconn = "none", !.log = LogAttempt]
    ELSE IF try_connect(net.c1) # "Ok"
    THEN [sv EXCEPT !.reconn = "noconn", !.reach = FALSE,
               !.log = LogAttempt \o <<LogReconnectFailed>>, !.misses = 0]
    ELSE LET m == migrate_to_online(sv.tokens, sv.db, net.ord, net.c2, net.a2)
         IN  IF ~m.ok
             THEN [sv EXCEPT !.reconn = "nomigrate", !.reach = FALSE,
                             !.log = LogAttempt \o <<LogMigrateFailed>>]
             ELSE [sv EXCEPT !.store = "Online", !.misses = 0,
                             !.tokens = OfflineAuth_new, !.db = m.db,
                             !.reconn = IF net.a2 >= Len(net.ord) THEN "ok" ELSE "cut",
                             !.reach = TRUE,
                             !.log = LogAttempt \o <<LogReconnected>>]

\* maybe_reconnect attempting only on every second multiple of
\* RECONNECT_FREQUENCY
maybe_reconnect_sparse(sv, net) ==
    IF sv.misses % (2 * RECONNECT_FREQUENCY) # 0
    THEN [sv EXCEPT !.reconn = "none"]
    ELSE IF sv.store # "Offline"
    THEN [sv EXCEPT !.reconn = "none", !.log = LogAttempt]
    ELSE IF try_connect(net.c1) # "Ok"
    THEN [sv EXCEPT !.reconn = "noconn", !.reach = FALSE,
               !.log = LogAttempt \o <<LogReconnectFailed>>]
    ELSE LET m == migrate_to_online(sv.tokens, sv.db, net.ord, net.c2, net.a2)
         IN  IF ~m.ok
             THEN [sv EXCEPT !.reconn = "nomigrate", !.reach = FALSE,
                             !.log = LogAttempt \o <<LogMigrateFailed>>]
             ELSE [sv EXCEPT !.store = "Online", !.misses = 0,
                             !.tokens = OfflineAuth_new, !.db = m.db,
                             !.reconn = IF net.a2 >= Len(net.ord) THEN "ok" ELSE "cut",
                             !.reach = TRUE,
                             !.log = LogAttempt \o <<LogReconnected>>]

\* maybe_reconnect switching to Online without self.misses = 0
maybe_reconnect_keep_misses(sv, net) ==
    IF sv.misses % RECONNECT_FREQUENCY # 0
    THEN [sv EXCEPT !.reconn = "none"]
    ELSE IF sv.store # "Offline"
    THEN [sv EXCEPT !.reconn = "none", !.log = LogAttempt]
    ELSE IF try_connect(net.c1) # "Ok"
    THEN [sv EXCEPT !.reconn = "noconn", !.reach = FALSE,
               !.log = LogAttempt \o <<LogReconnectFailed>>]
    ELSE LET m == migrate_to_online(sv.tokens, sv.db, net.ord, net.c2, net.a2)
         IN  IF ~m.ok
             THEN [sv EXCEPT !.reconn = "nomigrate", !.reach = FALSE,
                             !.log = LogAttempt \o <<LogMigrateFailed>>]
             ELSE [sv EXCEPT !.store = "Online",
                             !.tokens = OfflineAuth_new, !.db = m.db,
                             !.reconn = IF net.a2 >= Len(net.ord) THEN "ok" ELSE "cut",
                             !.reach = TRUE,
                             !.log = LogAttempt \o <<LogReconnected>>]

\* AuthService::maybe_reconnect.  sv: [store, misses, tokens, db];
\* net: the outcomes of the network operations of this call.
\* reconn: "none" (no attempt), "noconn" (try_connect failed),
\* "nomigrate" (migrate_to_online failed), "ok" (switched to Online),
\* "cut" (switched to Online although the migration pipeline was cut off)
maybe_reconnect(sv, net) ==
    IF sv.misses % RECONNECT_FREQUENCY # 0
    THEN [sv EXCEPT !.reconn = "none"]
    ELSE IF sv.store # "Offline"
    THEN [sv EXCEPT !.reconn = "none", !.log = LogAttempt]
    ELSE IF try_connect(net.c1) # "Ok"
    THEN [sv EXCEPT !.reconn = "noconn", !.reach = FALSE,
               !.log = LogAttempt \o <<LogReconnectFailed>>]
    ELSE LET m == migrate_to_online(sv.tokens, sv.db, net.ord, net.c2, net.a2)
         IN  IF ~m.ok
             THEN [sv EXCEPT !.reconn = "nomigrate", !.reach = FALSE,
                             !.log = LogAttempt \o <<LogMigrateFailed>>]
             ELSE [sv EXCEPT !.store = "Online", !.misses = 0,
                             !.tokens = OfflineAuth_new, !.db = m.db,
                             !.reconn = IF net.a2 >= Len(net.ord) THEN "ok" ELSE "cut",
                             !.reach = TRUE,
                             !.log = LogAttempt \o <<LogReconnected>>]

\* generate_user_token, Store::Offline arm (auth.rs:65-68)
issue_offline(sv, user_id, uuid) ==
    [sv EXCEPT !.misses = sv.misses + 1,
               !.tokens = OfflineAuth_generate_for_user(sv.tokens, user_id, uuid),
               !.res = "Ok(uuid)", !.tok = uuid, !.served = "Offline"]

\* issue_demote propagating the failure of RedisAuth instead of Ok
issue_demote_err(sv, user_id, uuid2) ==
    [sv EXCEPT !.store = "Offline", !.misses = 1,
               !.tokens = OfflineAuth_generate_for_user(OfflineAuth_new, user_id, uuid2),
               !.res = "Err(())", !.tok = uuid2, !.served = "Offline",
               !.demoted = TRUE]

\* issue_demote installing a new OfflineAuth instead of the one that
\* generated the token
issue_demote_fresh(sv, user_id, uuid2) ==
    [sv EXCEPT !.store = "Offline", !.misses = 1,
               !.tokens = OfflineAuth_new,
               !.res = "Ok(uuid)", !.tok = uuid2, !.served = "Offline",
               !.demoted = TRUE]

\* generate_user_token, Store::Online arm when redis.generate_for_user
\* failed (auth.rs:73-79); uuid2 is the second Uuid::new_v4() of the call.
\* The first one was dropped with the failed call, stored nowhere and
\* returned to nobody, so the second one takes its place in Uuids.
issue_demote(sv, user_id, uuid2) ==
    [sv EXCEPT !.store = "Offline", !.misses = 1,
               !.tokens = OfflineAuth_generate_for_user(OfflineAuth_new, user_id, uuid2),
               !.res = "Ok(uuid)", !.tok = uuid2, !.served = "Offline",
               !.demoted = TRUE]

\* generate_user_token, Store::Online arm (auth.rs:69-80)
issue_online(sv, user_id, username, nxt, net) ==
    LET r == RedisAuth_generate_for_user(sv.db, user_id, username, nxt + 1,
                                         net.k3 # "noconn", net.a3)
        s1 == [sv EXCEPT !.reach = (net.k3 # "noconn"), !.cause = net.k3]
    IN  IF r.ok
        THEN [s1 EXCEPT !.db = r.db, !.res = "Ok(uuid)", !.tok = nxt + 1,
                        !.served = "Online"]
        ELSE issue_demote(s1, user_id, nxt + 1)

\* AuthService::generate_user_token
generate_user_token(sv, user_id, username, nxt, net) ==
    LET s1 == IF sv.store = "Offline" THEN maybe_reconnect(sv, net) ELSE sv
    IN  IF s1.store = "Offline"
        THEN issue_offline(s1, user_id, nxt + 1)
        ELSE issue_online(s1, user_id, username, nxt, net)

\* the Store::Offline arm of validate without its self.misses += 1
validate_offline_uncounted(sv, user_id, token) ==
    [sv EXCEPT !.res = IF OfflineAuth_validate(sv.tokens, user_id, token)
                       THEN "Ok(true)" ELSE "Ok(false)",
               !.served = "Offline"]

\* validate, Store::Offline arm (auth.rs:95-98)
validate_offline(sv, user_id, token) ==
    [sv EXCEPT !.misses = sv.misses + 1,
               !.res = IF OfflineAuth_validate(sv.tokens, user_id, token)
                       THEN "Ok(true)" ELSE "Ok(false)",
               !.served = "Offline"]

\* validate_demote answering Ok(false) instead of the error
validate_demote_false(sv) ==
    [sv EXCEPT !.store = "Offline", !.tokens = OfflineAuth_new, !.misses = 1,
               !.res = "Ok(false)", !.served = "Online", !.demoted = TRUE,
               !.log = sv.log \o <<LogSwitchOffline>>]

\* validate_demote with an error value of its own
validate_demote_tagged(sv) ==
    [sv EXCEPT !.store = "Offline", !.tokens = OfflineAuth_new, !.misses = 1,
               !.res = "Err(BackendUnavailable)", !.served = "Online", !.demoted = TRUE,
               !.log = sv.log \o <<LogSwitchOffline>>]

\* validate, Store::Online arm when validate_username failed (auth.rs:103-108)
validate_demote(sv) ==
    [sv EXCEPT !.store = "Offline", !.tokens = OfflineAuth_new, !.misses = 1,
               !.res = "Err(())", !.served = "Online", !.demoted = TRUE,
               !.log = sv.log \o <<LogSwitchOffline>>]

\* validate, Store::Online arm (auth.rs:99-109)
validate_online(sv, username, token, net) ==
    LET r == validate_username(sv.db, username, token, net.k3)
        s1 == [sv EXCEPT !.reach = (net.k3 # "noconn"),
                         !.cause = IF net.k3 = "ok" /\ r = "Err(())" THEN "format" ELSE net.k3]
    IN  IF r # "Err(())"
        THEN [s1 EXCEPT !.res = r, !.served = "Online"]
        ELSE validate_demote(s1)

\* validate_malformed treating an unparsable token as a wrong one
validate_malformed_false(sv) ==
    [sv EXCEPT !.res = "Ok(false)", !.cause = "malformed"]

\* validate, the early return for an unparsable token (auth.rs:85-88)
validate_malformed(sv) ==
    [sv EXCEPT !.res = "Err(())", !.cause = "malformed"]

\* AuthService::validate calling maybe_reconnect before it looks at the
\* result of Uuid::parse_str
AuthService_validate_reconnect_first(sv, user_id, username, token_str, net) ==
    LET token == Uuid_parse_str(token_str)
        s1 == IF sv.store = "Offline" THEN maybe_reconnect(sv, net) ELSE sv
    IN  IF token = NoToken
        THEN validate_malformed(s1)
        ELSE IF s1.store = "Offline"
        THEN validate_offline(s1, user_id, token)
        ELSE validate_online(s1, username, token, net)

\* AuthService::validate
AuthService_validate(sv, user_id, username, token_str, net) ==
    LET token == Uuid_parse_str(token_str)
        s1 == IF sv.store = "Offline" THEN maybe_reconnect(sv, net) ELSE sv
    IN  IF token = NoToken
        THEN validate_malformed(sv)
        ELSE IF s1.store = "Offline"
        THEN validate_offline(s1, user_id, token)
        ELSE validate_online(s1, username, token, net)

----------------------------------------------------------------------------
(* The environment of one call: what its network operations meet           *)

\* the orders in which a HashMap over the key set S can be iterated
Orders(S) ==
    {f \in [1..Cardinality(S) -> S] : \A i, j \in 1..Cardinality(S) : f[i] = f[j] => i = j}

Script(c1, c2, a2, ord, k3, a3) ==
    [c1 |-> c1, c2 |-> c2, a2 |-> a2, ord |-> ord, k3 |-> k3, a3 |-> a3]

\* outcomes of the Redis operation of the Online arm: <<k3, a3>>.  The
\* pipeline of an issuance is executed whole or lost whole (its second
\* entry, user to token, is read by nothing in AuthService); the pipeline
\* of a migration may stop after any of its commands (NetScripts).
OpOutcomes(op, reach) ==
    IF ~reach THEN {<<"noconn", 0>>}
    ELSE IF op = "issue" THEN {<<"ok", 2>>, <<"dropped", 0>>}
    ELSE {<<"ok", 0>>, <<"dropped", 0>>, <<"other", 0>>}

\* the scripts possible for a call of op in the current state: the first
\* network operation of the call meets the server as it is (up), the later
\* ones meet it up or down
NetScripts(op) ==
    IF store = "Online"
    THEN {Script(FALSE, FALSE, 0, << >>, o[1], o[2]) : o \in OpOutcomes(op, up)}
    ELSE IF misses % RECONNECT_FREQUENCY # 0 \/ ~up
    THEN {Script(FALSE, FALSE, 0, << >>, "noconn", 0)}
    ELSE LET held == {u \in UserIds : tokens[u] # NoToken}
         IN  {Script(TRUE, FALSE, 0, << >>, "noconn", 0)}
             \cup {Script(TRUE, TRUE, a, ord, o[1], o[2]) :
                     a \in 0..Cardinality(held), ord \in Orders(held),
                     o \in OpOutcomes(op, TRUE) \cup {<<"noconn", 0>>}}

\* the state a call starts from
CallState ==
    [store |-> store, misses |-> misses, tokens |-> tokens, db |-> db,
     reconn |-> "none", reach |-> up, res |-> "none", tok |-> NoToken,
     served |-> "None", demoted |-> FALSE, cause |-> "none", log |-> << >>]

CallRecord(op, u, s, out) ==
    [op |-> op, u |-> u, s |-> s,
     res |-> out.res, tok |-> out.tok, before |-> store, served |-> out.served,
     reconn |-> out.reconn, demoted |-> out.demoted, cause |-> out.cause,
     up0 |-> up, log |-> out.log,
     held |-> Uuid_parse_str(s) # NoToken
              /\ OfflineAuth_validate(tokens, u, Uuid_parse_str(s))]

NoCall ==
    [op |-> "none", u |-> 0, s |-> EmptyStr,
     res |-> "none", tok |-> NoToken, before |-> "None", served |-> "None",
     reconn |-> "none", demoted |-> FALSE, cause |-> "none", up0 |-> FALSE,
     held |-> FALSE, log |-> << >>]

----------------------------------------------------------------------------
(* Specification                                                           *)

\* no Cache method is called directly
NoCacheCall ==
    [op |-> "none", entries |-> << >>, symmetric |-> FALSE, overwrite |-> FALSE,
     conn |-> FALSE, full |-> FALSE, res |-> "none", value |-> EmptyStr,
     before |-> << >>]

\* no request is being handled; the accounts are those of Username
AuxIdle ==
    /\ ccall = NoCacheCall
    /\ pc = [h \in Handlers |-> "idle"]
    /\ lock = 0
    /\ thread = 0
    /\ elapsed = 0
    /\ req = [h \in Handlers |-> "none"]
    /\ names = [u \in UserIds |-> Username(u)]

\* AuthService::new, called once by main (main.rs:26)
Init ==
    /\ up \in BOOLEAN
    /\ store = IF try_connect(up) = "Ok" THEN "Online" ELSE "Offline"
    /\ misses = 0
    /\ tokens = OfflineAuth_new
    /\ db = << >>
    /\ next = 0
    /\ issuedTo = [t \in Uuids |-> 0]
    /\ last = NoCall
    /\ AuxIdle

\* a request handler calls generate_user_token (api/api.rs:108) for the
\* account it has read from the database
Issue(u) ==
    \E net \in NetScripts("issue") :
        LET out == generate_user_token(CallState, u, Username(u), next, net)
        IN  /\ next < MaxTokens
            /\ out.misses <= MaxMisses
            /\ store' = out.store
            /\ misses' = out.misses
            /\ tokens' = out.tokens
            /\ db' = out.db
            /\ up' = out.reach
            /\ next' = next + 1
            /\ issuedTo' = [issuedTo EXCEPT ![out.tok] = u]
            /\ last' = CallRecord("issue", u, EmptyStr, out)
            /\ UNCHANGED aux

\* a request handler calls validate (api/api.rs:464)
Validate(u, s) ==
    \E net \in NetScripts("validate") :
        LET out == AuthService_validate(CallState, u, Username(u), s, net)
        IN  /\ out.misses <= MaxMisses
            /\ store' = out.store
            /\ misses' = out.misses
            /\ tokens' = out.tokens
            /\ db' = out.db
            /\ up' = out.reach
            /\ last' = CallRecord("validate", u, s, out)
            /\ UNCHANGED <<next, issuedTo, aux>>

\* the Redis server stops accepting connections
RemoteDown ==
    /\ up
    /\ up' = FALSE
    /\ UNCHANGED <<store, misses, tokens, db, next, issuedTo, last, aux>>

\* the Redis server accepts connections again
RemoteUp ==
    /\ ~up
    /\ up' = TRUE
    /\ UNCHANGED <<store, misses, tokens, db, next, issuedTo, last, aux>>

\* time passes until the next entries of the Redis server expire
Elapse ==
    /\ DOMAIN db # {}
    /\ LET m == CHOOSE x \in {db[k].ttl : k \in DOMAIN db} :
                    \A k \in DOMAIN db : x <= db[k].ttl
       IN  db' = [k \in {j \in DOMAIN db : db[j].ttl > m} |->
                    [value |-> db[k].value, ttl |-> db[k].ttl - m]]
    /\ last' = NoCall
    /\ UNCHANGED <<store, misses, tokens, up, next, issuedTo, aux>>

Next ==
    \/ \E u \in UserIds : Issue(u)
    \/ \E u \in UserIds, s \in TokenStrs(next) : Validate(u, s)
    \/ RemoteDown
    \/ RemoteUp
    \/ Elapse

Spec == Init /\ [][Next]_vars

----------------------------------------------------------------------------
(* Properties                                                              *)

\* the call could not reach the Redis server: no connection, or the
\* connection was lost under the command
Unreachable(c) == c.cause \in {"noconn", "dropped"}

\* every Redis operation of the call was answered (or it made none)
Answered(c) == c.cause \in {"none", "ok"} /\ c.reconn # "cut"

\* C1: token issuance never fails: whatever the backend, the reachability of
\* the Redis server and the miss counter, generate_user_token returns Ok
\* with a token.
C1_IssueNeverFails ==
    last.op = "issue" => (last.res = "Ok(uuid)" /\ last.tok \in Uuids)

\* an issuance that found the service Online and the server unreachable
C1_Witness ==
    /\ last.op = "issue"
    /\ last.before = "Online"
    /\ last.cause = "noconn"
    /\ last.res = "Ok(uuid)"

\* C2: validate(u, T) called right after T = generate_user_token(u) returns
\* Ok(true), on both backends.  Stated for the calls whose Redis operations
\* were all answered; it fails when the validate call reconnects: the
\* migrated entry is not the one validate_username reads.
C2_ValidAfterIssue ==
    [][(/\ last.op = "issue"
        /\ Answered(last)
        /\ last'.op = "validate"
        /\ last'.u = last.u
        /\ Uuid_parse_str(last'.s) = last.tok
        /\ Answered(last'))
       => last'.res = "Ok(true)"]_vars

\* the tokens returned for user u, and the latest of them
TokensOf(u) == {t \in Uuids : issuedTo[t] = u}
Latest(u) == CHOOSE t \in TokensOf(u) : \A x \in TokensOf(u) : x <= t

\* C3: a second issuance for u invalidates the first: with all Redis
\* operations answered, validate(u, T1) returns Ok(false) for a token T1 of
\* u that is not the latest one, and validate(u, T2) right after the issuance
\* of T2 returns Ok(true).
C3_SecondInvalidatesFirst ==
    [][/\ (/\ last'.op = "validate"
           /\ Answered(last')
           /\ Uuid_parse_str(last'.s) \in TokensOf(last'.u)
           /\ Uuid_parse_str(last'.s) # Latest(last'.u))
          => last'.res = "Ok(false)"
       /\ (/\ last.op = "issue"
           /\ Answered(last)
           /\ TokensOf(last.u) # {last.tok}
           /\ last'.op = "validate"
           /\ last'.u = last.u
           /\ Uuid_parse_str(last'.s) = last.tok
           /\ Answered(last'))
          => last'.res = "Ok(true)"]_vars

\* the uuids the active backend accepts for user u
LiveTokens(u) ==
    IF store = "Offline"
    THEN {t \in Uuids : OfflineAuth_validate(tokens, u, t)}
    ELSE {t \in Uuids : validate_username(db, Username(u), t, "ok") = "Ok(true)"}

\* C4: the active backend holds at most one live token per user id.
C4_OneLiveTokenPerUser ==
    \A u \in UserIds : Cardinality(LiveTokens(u)) <= 1

\* C5: right after a reconnect switched the service back to Online, the
\* token the in-memory store held for the user validates: Ok(true).
C5_MigratedTokenValid ==
    (/\ last.op = "validate"
     /\ last.reconn = "ok"
     /\ last.held
     /\ last.cause = "ok")
    => last.res = "Ok(true)"

\* C6: a validate call served by Online that cannot reach the Redis server
\* switches to Offline, sets misses to 1 and returns an error.
C6_ValidateDemotes ==
    (/\ last.op = "validate"
     /\ last.served = "Online"
     /\ Unreachable(last))
    => (store = "Offline" /\ misses = 1 /\ last.res = "Err(())")

C6_Witness ==
    /\ last.op = "validate"
    /\ last.served = "Online"
    /\ Unreachable(last)
    /\ store = "Offline"

\* C7: validate with an empty string or any string that is no uuid returns
\* the error, in every backend state.
C7_MalformedIsError ==
    (last.op = "validate" /\ Uuid_parse_str(last.s) = NoToken)
    => last.res = "Err(())"

\* validate("") with the service Offline and the server down
C7_Witness ==
    /\ last.op = "validate"
    /\ last.s = EmptyStr
    /\ last.before = "Offline"
    /\ ~last.up0

\* what validate can return in the current state when it is served by
\* Online and cannot reach the Redis server
UnreachableResults ==
    {o.res : o \in {x \in {AuthService_validate(CallState, u, Username(u),
                                                  Uuid_to_string(t), net) :
                                u \in UserIds, t \in Uuids,
                                net \in NetScripts("validate")} :
                      x.served = "Online" /\ Unreachable(x)}}

C9_OfflineServes ==
    [][/\ (last'.op = "issue" /\ ~last'.up0)
          => (last'.served = "Offline" /\ last'.res = "Ok(uuid)")
       /\ (/\ last.op = "issue"
           /\ ~last.up0
           /\ last'.op = "validate"
           /\ ~last'.up0
           /\ last'.u = last.u
           /\ Uuid_parse_str(last'.s) = last.tok)
          => (last'.res = "Ok(true)" /\ store' = "Offline")]_vars

\* a token issued and then validated with the server down all along
C9_Witness ==
    /\ last.op = "validate"
    /\ ~last.up0
    /\ last.held
    /\ issuedTo[Uuid_parse_str(last.s)] = last.u
    /\ last.res = "Ok(true)"
    /\ store = "Offline"
    /\ db = << >>

\* C10: when the issuance delegated to Online fails, the service is Offline,
\* misses is exactly 1 and the returned token is the one the new in-memory
\* store holds for that user.
C10_IssueDemotes ==
    (last.op = "issue" /\ last.cause = "noconn")
    => /\ store = "Offline"
       /\ misses = 1
       /\ last.tok # NoToken
       /\ tokens[last.u] = last.tok

\* the failed issuance followed a successful reconnect of the same call
C10_Witness ==
    /\ last.op = "issue"
    /\ last.cause = "noconn"
    /\ last.reconn = "ok"
    /\ store = "Offline"

----------------------------------------------------------------------------
(* Reconnecting (auth.rs:36-57)                                            *)

\* the step is a generate_user_token or validate call (RemoteDown and
\* RemoteUp change nothing but up, Elapse leaves last = NoCall)
CallStep ==
    /\ last'.op # "none"
    /\ ~ UNCHANGED <<store, misses, tokens, db, next, issuedTo, last>>

\* the call went past the parsing of its token
Selected(c) == c.cause # "malformed"

\* the call left the in-memory entries alone, but for the one it issued
KeepsEntries ==
    \A u \in UserIds :
        (last'.op = "issue" /\ u = last'.u) \/ tokens'[u] = tokens[u]

\* the entries OfflineAuth held are in the Redis server as migrate_to_online
\* writes them
Migrated(reg, d) ==
    \A u \in UserIds :
        reg[u] # NoToken =>
            /\ u64_to_string(u) \in DOMAIN d
            /\ d[u64_to_string(u)].value = Uuid_to_string(reg[u])

\* C11: a call switches from Offline to Online and resets misses to 0 only
\* when migrate_to_online returned Ok, and then the entries it sent in full
\* are in the Redis server; when migrate_to_online returned Err the service
\* stays Offline, keeps its entries, writes nothing and misses goes on
\* counting.
C11_MigrateThenPromote ==
    [][CallStep =>
        /\ (store = "Offline" /\ store' = "Online")
              => /\ last'.reconn \in {"ok", "cut"}
                 /\ misses' = 0
                 /\ last'.reconn = "ok" => Migrated(tokens, db')
        /\ (store = "Offline" /\ Selected(last') /\ last'.reconn \notin {"ok", "cut"})
              => (store' = "Offline" /\ misses' = misses + 1)
        /\ last'.reconn = "nomigrate"
              => /\ store' = "Offline"
                 /\ misses' = misses + 1
                 /\ KeepsEntries
                 /\ db' = db]_vars

\* a validate call whose migration failed answered from the entries it kept
C11_Witness ==
    /\ last.op = "validate"
    /\ last.reconn = "nomigrate"
    /\ last.held
    /\ last.res = "Ok(true)"
    /\ store = "Offline"

\* C12: when try_connect fails during a reconnect attempt the service stays
\* Offline, misses is not reset (it counts the call) and the in-memory
\* entries are the ones held before, the Redis server untouched.
C12_FailedReconnectKeeps ==
    [][(CallStep /\ last'.reconn = "noconn")
        => /\ store = "Offline"
           /\ store' = "Offline"
           /\ misses' = misses + 1
           /\ KeepsEntries
           /\ db' = db
           /\ last'.served = "Offline"]_vars

\* a token held in memory validates in a call whose reconnect attempt failed
C12_Witness ==
    /\ last.op = "validate"
    /\ last.reconn = "noconn"
    /\ last.held
    /\ last.res = "Ok(true)"
    /\ misses = 2

\* C13: a call attempts to reconnect exactly when it starts Offline with
\* misses a multiple of RECONNECT_FREQUENCY (one attempt, whose outcome is
\* reconn); every call served by Offline adds one to misses and a demotion
\* sets it to 1, so attempts are RECONNECT_FREQUENCY Offline calls apart.
C13_ReconnectSchedule ==
    [][(CallStep /\ Selected(last')) =>
        /\ (last'.reconn # "none")
              <=> (store = "Offline" /\ misses % RECONNECT_FREQUENCY = 0)
        /\ last'.reconn # "none" => last'.before = "Offline"
        /\ (store = "Offline" /\ store' = "Offline" /\ ~last'.demoted)
              => misses' = misses + 1
        /\ last'.demoted => misses' = 1]_vars

\* the service was Online (the server holds entries) and was demoted
\* (misses = 1 then); the one call since attempted to reconnect
C13_Witness ==
    /\ last.op # "none"
    /\ last.before = "Offline"
    /\ last.reconn = "noconn"
    /\ misses = 2
    /\ db # << >>

\* C17: store is one of Online and Offline in every state; AuthService::new
\* leaves it Online iff its try_connect succeeded, with misses 0.
C17_OneBackend ==
    /\ [](store \in {"Online", "Offline"})
    /\ (store = "Online") <=> up
    /\ misses = 0

\* AuthService::new found the server down
C17_Witness ==
    /\ store = "Offline"
    /\ ~up
    /\ misses = 0
    /\ next = 0
    /\ last = NoCall

----------------------------------------------------------------------------
(* Cache called directly, as the tests of cache/cache.rs call it            *)

\* SHORT_EXPIRY of the tests; they write SHORT_EXPIRY / 2 and SHORT_EXPIRY
SHORT_EXPIRY == 4
Expiries == {SHORT_EXPIRY \div 2, SHORT_EXPIRY}

\* the strings used as keys and as values
CacheStrs == {Txt(i) : i \in 1..MaxStrs}

CacheEntries == {Entry(k, v, x) : k \in CacheStrs, v \in CacheStrs, x \in Expiries}

EntryLists == UNION {[1..n -> CacheEntries] : n \in 0..MaxEntries}

\* the variables Cache does not touch
CacheFrame ==
    UNCHANGED <<store, misses, tokens, up, next, issuedTo, last,
                pc, lock, thread, elapsed, req, names>>

\* a Cache over a reachable, empty Redis server
CacheInit == Init /\ up

CacheRecord(op, entries, symmetric, overwrite, conn, full, res, value) ==
    [op |-> op, entries |-> entries, symmetric |-> symmetric,
     overwrite |-> overwrite, conn |-> conn, full |-> full, res |-> res,
     value |-> value, before |-> db]

\* cache.set_multiple(entries, symmetric, overwrite).await
SetMultiple(entries, symmetric, overwrite) ==
    /\ ccall = NoCacheCall
    /\ \E conn \in BOOLEAN, applied \in 0..(2 * MaxEntries) :
          LET pipe == BuildPipe(<< >>, entries, symmetric, overwrite)
              r == set_multiple(db, entries, symmetric, overwrite, conn, applied)
          IN  /\ applied <= Len(pipe)
              /\ ~conn => applied = 0
              /\ db' = r.db
              /\ ccall' = CacheRecord("set_multiple", entries, symmetric, overwrite,
                                      conn, conn /\ applied = Len(pipe), r.res, EmptyStr)
    /\ CacheFrame

\* cache.set_single(entry, symmetric, overwrite).await
SetSingle(entry, symmetric, overwrite) ==
    /\ ccall = NoCacheCall
    /\ \E conn \in BOOLEAN, applied \in 0..2 :
          LET pipe == add_to_pipe(<< >>, entry, symmetric, overwrite)
              r == set_single(db, entry, symmetric, overwrite, conn, applied)
          IN  /\ applied <= Len(pipe)
              /\ ~conn => applied = 0
              /\ db' = r.db
              /\ ccall' = CacheRecord("set_single", <<entry>>, symmetric, overwrite,
                                      conn, conn /\ applied = Len(pipe), r.res, EmptyStr)
    /\ CacheFrame

\* cache.get(key).await
Get(key) ==
    /\ ccall = NoCacheCall
    /\ \E net \in {"ok", "noconn", "dropped", "other"} :
          LET g == Cache_get(db, key, net)
          IN  ccall' = CacheRecord("get", <<Entry(key, EmptyStr, 0)>>, FALSE, FALSE,
                                   net # "noconn", net = "ok",
                                   IF g.err = "None" THEN "Ok" ELSE g.err, g.value)
    /\ UNCHANGED db
    /\ CacheFrame

\* the caller has its result
Return ==
    /\ ccall # NoCacheCall
    /\ ccall' = NoCacheCall
    /\ UNCHANGED db
    /\ CacheFrame

\* entries expire between two calls
CacheElapse ==
    /\ ccall = NoCacheCall
    /\ Elapse

CacheNext ==
    \/ \E entries \in EntryLists, symmetric \in BOOLEAN, overwrite \in BOOLEAN :
          SetMultiple(entries, symmetric, overwrite)
    \/ \E entry \in CacheEntries, symmetric \in BOOLEAN, overwrite \in BOOLEAN :
          SetSingle(entry, symmetric, overwrite)
    \/ \E key \in CacheStrs : Get(key)
    \/ Return
    \/ CacheElapse

CacheSpec == CacheInit /\ [][CacheNext]_vars

\* what the server holds under key k once pipe has been executed in full:
\* what its last SET for k wrote
LastSet(pipe, k) ==
    LET i == CHOOSE n \in 1..Len(pipe) :
                /\ pipe[n].key = k
                /\ \A m \in (n + 1)..Len(pipe) : pipe[m].key # k
    IN  [value |-> pipe[i].value, ttl |-> pipe[i].ex]

\* entry i of the list shares no string with another entry of it
Independent(entries, i) ==
    \A j \in 1..Len(entries) :
        j # i => {entries[j].key, entries[j].value}
                    \cap {entries[i].key, entries[i].value} = {}

\* C18: set_multiple with overwrite = false returns Ok when it got its
\* connection, and every key the server held before the call has the value
\* and the TTL it had, whatever the entries and however often it is called.
C18_NoOverwriteKeeps ==
    (ccall.op = "set_multiple" /\ ~ccall.overwrite)
    => /\ ccall.conn => ccall.res = "Ok"
       /\ \A k \in DOMAIN ccall.before :
             k \in DOMAIN db /\ db[k] = ccall.before[k]

\* an entry for a key that exists with another value and another TTL
C18_Witness ==
    /\ ccall.op = "set_multiple"
    /\ ~ccall.overwrite
    /\ ccall.full
    /\ \E i \in 1..Len(ccall.entries) :
          /\ ccall.entries[i].key \in DOMAIN ccall.before
          /\ ccall.before[ccall.entries[i].key].value # ccall.entries[i].value
          /\ ccall.before[ccall.entries[i].key].ttl # ccall.entries[i].expiry_sec

C20_OverwriteReplaces ==
    (ccall.op \in {"set_single", "set_multiple"} /\ ccall.overwrite /\ ccall.full)
    => LET pipe == BuildPipe(<< >>, ccall.entries, ccall.symmetric, TRUE)
       IN  \A n \in 1..Len(pipe) :
              /\ pipe[n].key \in DOMAIN db
              /\ db[pipe[n].key] = LastSet(pipe, pipe[n].key)

\* a key with SHORT_EXPIRY / 2 left is written again with another value and
\* SHORT_EXPIRY
C20_Witness ==
    /\ ccall.op = "set_multiple"
    /\ ccall.overwrite
    /\ ~ccall.symmetric
    /\ ccall.full
    /\ Len(ccall.entries) = 1
    /\ ccall.entries[1].key \in DOMAIN ccall.before
    /\ ccall.before[ccall.entries[1].key].ttl = SHORT_EXPIRY \div 2
    /\ ccall.before[ccall.entries[1].key].value # ccall.entries[1].value
    /\ db[ccall.entries[1].key] = [value |-> ccall.entries[1].value, ttl |-> SHORT_EXPIRY]

----------------------------------------------------------------------------
(* Request handlers on the one worker thread (main.rs:45).  Each request   *)
(* is a task of the worker's single-threaded runtime; a task runs on the   *)
(* thread until it is suspended at an .await or returns.  A handler's call *)
(* is `auth.lock().unwrap().<call>.await` (api.rs:108, :464): the guard of *)
(* the std::sync::Mutex is a temporary of that statement, held until the   *)
(* call has returned.  pc[h]:                                              *)
(*   "idle"           no request                                          *)
(*   "ready"          the task is about to call auth.lock()                *)
(*   "lock_wait"      blocked in Mutex::lock, and the thread with it       *)
(*   "locked"         holds the guard, the call begins                     *)
(*   "scope"          in try_connect, thread::scope waits for the thread   *)
(*                    that runs Cache::new                                 *)
(*   "recv_ok", "recv_err"  at recv_timeout, the result is in the channel  *)
(*   "await_migrate"  suspended in migrate_to_online                       *)
(*   "await_op"       suspended in the Redis operation of the Online arm   *)
(*   "done"           the call returned, the guard is dropped              *)

Requests == {"issue", "validate", "malformed"}

\* the variables the handlers do not touch
HandlerFrame == UNCHANGED <<tokens, db, next, issuedTo, last, ccall, names>>

HandlerInit == Init

\* the state of handler h when its call returns: the guard is dropped
Returned(h) ==
    /\ pc' = [pc EXCEPT ![h] = "done"]
    /\ lock' = 0
    /\ thread' = 0

\* the Store::Offline arm (auth.rs:65-68, 95-98): no .await in it
ServeOffline(h) ==
    /\ misses < MaxMisses
    /\ misses' = misses + 1
    /\ Returned(h)
    /\ UNCHANGED <<store, up, elapsed, req>>

\* a request arrives and its task is spawned
Request(h, k) ==
    /\ pc[h] = "idle"
    /\ pc' = [pc EXCEPT ![h] = "ready"]
    /\ req' = [req EXCEPT ![h] = k]
    /\ UNCHANGED <<store, misses, up, lock, thread, elapsed>>
    /\ HandlerFrame

\* Lock taking the mutex whoever holds it
Lock_unguarded(h) ==
    /\ pc[h] = "ready"
    /\ thread = 0
    /\ pc' = [pc EXCEPT ![h] = "locked"]
    /\ lock' = h
    /\ thread' = h
    /\ UNCHANGED <<store, misses, up, elapsed, req>>
    /\ HandlerFrame

\* the task is polled and calls auth.lock(): it takes the mutex, or blocks
\* the worker thread until the mutex is free
Lock(h) ==
    /\ pc[h] = "ready"
    /\ thread = 0
    /\ pc' = [pc EXCEPT ![h] = IF lock = 0 THEN "locked" ELSE "lock_wait"]
    /\ lock' = IF lock = 0 THEN h ELSE lock
    /\ thread' = h
    /\ UNCHANGED <<store, misses, up, elapsed, req>>
    /\ HandlerFrame

\* the call runs to its first .await, to try_connect or to its return
\* (auth.rs:59-64, 84-94)
Select(h) ==
    /\ pc[h] = "locked"
    /\ IF req[h] = "malformed"
       THEN Returned(h) /\ UNCHANGED <<store, misses, up, elapsed, req>>
       ELSE IF store = "Online"
       THEN /\ pc' = [pc EXCEPT ![h] = "await_op"]
            /\ thread' = 0
            /\ UNCHANGED <<store, misses, up, lock, elapsed, req>>
       ELSE IF misses % RECONNECT_FREQUENCY = 0
       THEN /\ pc' = [pc EXCEPT ![h] = "scope"]
            /\ elapsed' = 0
            /\ UNCHANGED <<store, misses, up, lock, thread, req>>
       ELSE ServeOffline(h)
    /\ HandlerFrame

\* a second passes while Cache::new has not returned
Tick ==
    /\ \E h \in Handlers : pc[h] = "scope"
    /\ elapsed < MaxElapsed
    /\ elapsed' = elapsed + 1
    /\ UNCHANGED <<store, misses, up, pc, lock, thread, req>>
    /\ HandlerFrame

\* Cache::new returns in the spawned thread, which sends its result and
\* ends; only then does thread::scope return (auth.rs:118-122)
Connect(h) ==
    /\ pc[h] = "scope"
    /\ pc' = [pc EXCEPT ![h] = IF try_connect(up) = "Ok" THEN "recv_ok" ELSE "recv_err"]
    /\ UNCHANGED <<store, misses, up, lock, thread, elapsed, req>>
    /\ HandlerFrame

\* recv_timeout finds the result in the channel (auth.rs:124-125); on Ok
\* maybe_reconnect goes on to migrate_to_online and is suspended there, on
\* Err the call is served by Offline
Recv(h) ==
    /\ pc[h] \in {"recv_ok", "recv_err"}
    /\ IF pc[h] = "recv_ok"
       THEN /\ pc' = [pc EXCEPT ![h] = "await_migrate"]
            /\ thread' = 0
            /\ elapsed' = 0
            /\ UNCHANGED <<store, misses, up, lock, req>>
       ELSE /\ misses < MaxMisses
            /\ misses' = misses + 1
            /\ Returned(h)
            /\ elapsed' = 0
            /\ UNCHANGED <<store, up, req>>
    /\ HandlerFrame

\* migrate_to_online returns and the task is polled again (auth.rs:45-51)
IoMigrate(h, ok) ==
    /\ pc[h] = "await_migrate"
    /\ thread = 0
    /\ ok => up
    /\ IF ok
       THEN /\ store' = "Online"
            /\ misses' = 0
            /\ pc' = [pc EXCEPT ![h] = "await_op"]
            /\ UNCHANGED <<up, lock, thread, elapsed, req>>
       ELSE ServeOffline(h)
    /\ HandlerFrame

\* the Redis operation of the Online arm returns and the task is polled
\* again (auth.rs:69-80, 99-109)
IoOp(h, ok) ==
    /\ pc[h] = "await_op"
    /\ thread = 0
    /\ ok => up
    /\ store' = IF ok THEN store ELSE "Offline"
    /\ misses' = IF ok THEN misses ELSE 1
    /\ Returned(h)
    /\ UNCHANGED <<up, elapsed, req>>
    /\ HandlerFrame

\* the response is sent
Respond(h) ==
    /\ pc[h] = "done"
    /\ pc' = [pc EXCEPT ![h] = "idle"]
    /\ req' = [req EXCEPT ![h] = "none"]
    /\ UNCHANGED <<store, misses, up, lock, thread, elapsed>>
    /\ HandlerFrame

HandlerNext ==
    \/ \E h \in Handlers, k \in Requests : Request(h, k)
    \/ \E h \in Handlers : Lock(h)
    \/ \E h \in Handlers : Select(h)
    \/ Tick
    \/ \E h \in Handlers : Connect(h)
    \/ \E h \in Handlers : Recv(h)
    \/ \E h \in Handlers, ok \in BOOLEAN : IoMigrate(h, ok)
    \/ \E h \in Handlers, ok \in BOOLEAN : IoOp(h, ok)
    \/ \E h \in Handlers : Respond(h)
    \/ RemoteDown
    \/ RemoteUp

HandlerSpec == HandlerInit /\ [][HandlerNext]_vars

\* the call of handler h is between auth.lock() and the drop of the guard
InCall(h) ==
    pc[h] \in {"locked", "scope", "recv_ok", "recv_err", "await_migrate", "await_op"}

\* C14: a call is never inside try_connect for longer than MAX_CONNECT_TIME:
\* when Cache::new does not return, try_connect gives up and the call goes
\* on, served by Offline.
C14_ProbeBounded ==
    \A h \in Handlers : pc[h] = "scope" => elapsed <= MAX_CONNECT_TIME

\* C15: while the reconnect attempt of one call is pending, the task of
\* another request can run.
C15_HungProbeDoesNotBlock ==
    \A h \in Handlers, g \in Handlers :
        (h # g /\ pc[h] = "scope" /\ pc[g] = "ready") => ENABLED Lock(g)

\* C16: every call in progress holds the mutex, so at most one is; store
\* and misses change only in a step of the call that holds it; and a
\* migration that switches to Online found the service Offline, so no two
\* calls migrate for the same switch.
C16_Serialized ==
    /\ [](\A h \in Handlers : InCall(h) => lock = h)
    /\ [][/\ (store' # store \/ misses' # misses)
              => /\ lock \in Handlers
                 /\ InCall(lock)
                 /\ pc'[lock] # pc[lock]
                 /\ \A g \in Handlers : g # lock => pc'[g] = pc[g]
          /\ \A h \in Handlers :
                (pc[h] = "await_migrate" /\ pc'[h] = "await_op")
                => (store = "Offline" /\ store' = "Online" /\ lock = h)]_vars

\* one call is migrating while the task of another request waits for the
\* mutex
C16_Witness ==
    \E h \in Handlers, g \in Handlers :
        /\ pc[h] = "await_migrate"
        /\ pc[g] = "lock_wait"
        /\ lock = h

----------------------------------------------------------------------------
(* Migration, RedisAuth and the arms of AuthService                        *)

\* every entry of the in-memory store reg can be looked up in d by its user
\* id (answer: the token) and by its token (answer: the user id)
ResolvableBothWays(reg, d) ==
    \A u \in UserIds :
        reg[u] # NoToken =>
            /\ u64_to_string(u) \in DOMAIN d
            /\ d[u64_to_string(u)].value = Uuid_to_string(reg[u])
            /\ Uuid_to_string(reg[u]) \in DOMAIN d
            /\ d[Uuid_to_string(reg[u])].value = u64_to_string(u)

\* C21: after a call whose migration was executed in full, every entry the
\* in-memory store held can be resolved in the Redis server in both
\* directions, user id to token and token to user id.
C21_MigrationBothWays ==
    [][(CallStep /\ last'.reconn = "ok") => ResolvableBothWays(tokens, db')]_vars

\* the two entries RedisAuth::generate_for_user builds for token t of user
\* u are in d, with the time to live ttl
StoredPair(d, u, t, ttl) ==
    /\ Uuid_to_string(t) \in DOMAIN d
    /\ d[Uuid_to_string(t)] =
          [value |-> Format(Username(u), u64_to_string(u)), ttl |-> ttl]
    /\ Username(u) \in DOMAIN d
    /\ d[Username(u)] =
          [value |-> Format(Uuid_to_string(t), u64_to_string(u)), ttl |-> ttl]

\* C22: when RedisAuth::generate_for_user returned Ok(token) (the call was
\* served by Online), the entries of that token are in the Redis server; a
\* failed write never ends in a token returned by RedisAuth.
C22_IssuedIsStored ==
    (last.op = "issue" /\ last.served = "Online")
        => StoredPair(db, last.u, last.tok, DAY_IN_SECONDS)

\* C23: a validate call that reached RedisAuth::validate_username returns
\* Err(()) only when the read of the Redis server failed (no connection, a
\* dropped connection, another Redis error); when the server answered, with
\* a value or with nil, the call returns Ok and the service stays Online.
C23_ErrOnlyOnFailedRead ==
    (last.op = "validate" /\ last.served = "Online") =>
        /\ last.res = "Err(())" => last.cause \in {"noconn", "dropped", "other"}
        /\ last.cause \notin {"noconn", "dropped", "other"}
              => (~last.demoted /\ store = "Online")

----------------------------------------------------------------------------
(* The mutex and the network calls (api.rs:108, :464)                      *)

\* a network call of the call of handler h is in flight: the connection
\* probe of try_connect, the set_multiple of migrate_to_online, or the
\* get / set_multiple of the Online arm
NetworkCall(h) == pc[h] \in {"scope", "await_migrate", "await_op"}

\* C24: no handler holds the mutex of the AuthService while a network call
\* of its call is in flight.
C24_LockFreeOnNetwork ==
    \A h \in Handlers : NetworkCall(h) => lock # h

----------------------------------------------------------------------------
(* Issuance by RedisAuth (redis_auth.rs:16-24)                             *)

----------------------------------------------------------------------------
(* OfflineAuth behind the Offline arms (backup_auth.rs:16-35)              *)

\* C26: a validate call served by OfflineAuth answers Ok(true) iff the map
\* holds an entry for the user id and its token is the one given, Ok(false)
\* otherwise; an issuance served by the OfflineAuth in place succeeds, puts
\* the new token in the place of the user's entry and leaves the entries of
\* the other users as they were; the passing of time removes no entry.
C26_OfflineAuthSemantics ==
    [][/\ (CallStep /\ last'.op = "validate" /\ last'.served = "Offline")
          => /\ last'.res \in {"Ok(true)", "Ok(false)"}
             /\ (last'.res = "Ok(true)")
                   <=> /\ tokens[last'.u] # NoToken
                       /\ tokens[last'.u] = Uuid_parse_str(last'.s)
             /\ tokens' = tokens
       /\ (CallStep /\ last'.op = "issue" /\ last'.served = "Offline" /\ ~last'.demoted)
          => /\ last'.res = "Ok(uuid)"
             /\ last'.tok # NoToken
             /\ tokens'[last'.u] = last'.tok
             /\ \A v \in UserIds : v # last'.u => tokens'[v] = tokens[v]
       /\ (last' = NoCall /\ db' # db) => tokens' = tokens]_vars

\* OfflineAuth issued a token for one user while it held one of another
\* user, and holds both
C26_Witness ==
    /\ last.op = "issue"
    /\ last.served = "Offline"
    /\ ~last.demoted
    /\ \E v \in UserIds :
          /\ v # last.u
          /\ tokens[v] # NoToken
          /\ tokens[v] # last.tok
    /\ tokens[last.u] = last.tok

----------------------------------------------------------------------------
(* The miss counter in the arms (auth.rs:64-81, 94-110)                    *)

\* misses as the match on self.store finds it: maybe_reconnect has set it
\* to 0 when it switched to Online and has left it alone otherwise
MissesAtArm ==
    IF last'.reconn \in {"ok", "cut"} THEN 0 ELSE misses

----------------------------------------------------------------------------
(* Log events of the switches (auth.rs:43-55, 69-80, 99-109)               *)

\* C28: a call that switches the backend writes a log event for the switch:
\* a promotion logs that it re-connected and migrated, a demotion logs that
\* it switches to Offline.
C28_SwitchLogged ==
    [][CallStep =>
        /\ (store = "Offline" /\ last'.reconn \in {"ok", "cut"})
              => \E i \in DOMAIN last'.log : last'.log[i] = LogReconnected
        /\ last'.demoted
              => \E i \in DOMAIN last'.log : last'.log[i] = LogSwitchOffline]_vars

----------------------------------------------------------------------------
(* The errors of Cache::get (cache.rs:60-69, error.rs:3-20)                *)

\* C29: get answers the stored value when the server answered and holds the
\* key; it fails with NilResponse when the server answered and the key is
\* absent, with ConnectionLost when no connection could be obtained, and
\* with ConnectionLost or RedisErr when the GET itself failed.
C29_GetErrorKinds ==
    ccall.op = "get" =>
        LET key == ccall.entries[1].key
        IN  /\ (ccall.full /\ key \in DOMAIN db)
                  => (ccall.res = "Ok" /\ ccall.value = db[key].value)
            /\ (ccall.full /\ key \notin DOMAIN db) => ccall.res = "NilResponse"
            /\ ~ccall.conn => ccall.res = "ConnectionLost"
            /\ (ccall.conn /\ ~ccall.full)
                  => ccall.res \in {"ConnectionLost", "RedisErr"}

----------------------------------------------------------------------------
(* The early return of validate (auth.rs:84-92)                            *)

\* C30: a validate call whose token string does not parse returns Err(())
\* before anything else: it makes no reconnect attempt, selects no arm,
\* logs nothing and leaves store, misses, the in-memory entries and the
\* Redis server as they were.
C30_MalformedFailsFast ==
    [][(last'.op = "validate" /\ Uuid_parse_str(last'.s) = NoToken /\ last' # last)
        => /\ last'.res = "Err(())"
           /\ last'.cause = "malformed"
           /\ last'.reconn = "none"
           /\ last'.served = "None"
           /\ ~last'.demoted
           /\ last'.log = << >>
           /\ UNCHANGED <<store, misses, tokens, db, up>>]_vars

\* the call came when a reconnect attempt was due and would have succeeded:
\* Offline with an entry to migrate, the server up
C30_Witness ==
    /\ last.op = "validate"
    /\ Uuid_parse_str(last.s) = NoToken
    /\ last.res = "Err(())"
    /\ store = "Offline"
    /\ misses % RECONNECT_FREQUENCY = 0
    /\ up
    /\ tokens # OfflineAuth_new

----------------------------------------------------------------------------
(* Tokens across the switches                                              *)

\* the Redis server holds the token to user entry of token t of user u
\* (it has not expired)
StoredToken(d, u, t) ==
    /\ Uuid_to_string(t) \in DOMAIN d
    /\ d[Uuid_to_string(t)].value = Format(Username(u), u64_to_string(u))

\* C32: a validate call for the latest token of a user, a token that the
\* Redis server still holds or that OfflineAuth held when the call began,
\* never returns Ok(false), whatever switches of the backend came before
\* or within the call: it returns Ok(true) or Err(()).
C32_CurrentTokenNotRejected ==
    (/\ last.op = "validate"
     /\ TokensOf(last.u) # {}
     /\ Uuid_parse_str(last.s) = Latest(last.u)
     /\ (StoredToken(db, last.u, Latest(last.u)) \/ last.held))
    => last.res # "Ok(false)"

----------------------------------------------------------------------------
(* Progress of the handlers on the one worker thread                       *)

\* C33: a handler that waits in Mutex::lock does not wait for ever: the
\* holder of the mutex, suspended in a Redis operation, can be polled again
\* when its operation returns, goes on to its return and drops the guard.
C33_HolderCanGoOn ==
    \A h \in Handlers, g \in Handlers :
        (pc[h] = "lock_wait" /\ lock = g /\ NetworkCall(g))
            => \/ ENABLED (\E ok \in BOOLEAN : IoMigrate(g, ok))
               \/ ENABLED (\E ok \in BOOLEAN : IoOp(g, ok))
               \/ ENABLED Connect(g)

----------------------------------------------------------------------------
(* Promotion and the migrated entries (auth.rs:43-51, 133-145)             *)

\* C34: a call that switches the service from Offline to Online leaves in
\* the Redis server every entry that OfflineAuth held when the call began.
C34_PromotedHasEntries ==
    [][(CallStep /\ store = "Offline" /\ store' = "Online")
        => Migrated(tokens, db')]_vars

----------------------------------------------------------------------------
(* misses and the active backend                                           *)

\* C35: whenever the store is Online, misses is 0; misses is other than 0
\* only while the store is Offline.
C35_OnlineHasNoMisses ==
    store = "Online" => misses = 0

\* the service is Online again after Offline calls that were counted: the
\* call that switched migrated a token issued by OfflineAuth
C35_Witness ==
    /\ store = "Online"
    /\ misses = 0
    /\ last.before = "Offline"
    /\ last.reconn = "ok"
    /\ \E u \in UserIds : u64_to_string(u) \in DOMAIN db

----------------------------------------------------------------------------
(* Time to live of migrated entries (auth.rs:133-145)                      *)

\* C36: the entries a migration writes have the time to live of the
\* entries of an issuance by RedisAuth, DAY_IN_SECONDS (12 hours).
C36_MigratedTtl ==
    [][(CallStep /\ last'.reconn = "ok")
        => \A u \in UserIds :
              (tokens[u] # NoToken /\ u64_to_string(u) \in DOMAIN db')
                  => db'[u64_to_string(u)].ttl = DAY_IN_SECONDS]_vars

----------------------------------------------------------------------------
(* set_multiple with one entry and set_single (cache.rs:85-131)            *)

\* the numbers of executed commands that agree with what the Cache call in
\* progress met: its connection, whether its pipeline was executed in full,
\* and the content of the server it left
AppliedOf(c) ==
    LET pipe == BuildPipe(<< >>, c.entries, c.symmetric, c.overwrite)
    IN  {n \in 0..Len(pipe) :
            /\ ~c.conn => n = 0
            /\ c.full <=> (c.conn /\ n = Len(pipe))
            /\ ExecPipe(c.before, pipe, n) = db}

\* C37: a set_multiple call with one entry ends as set_single would for the
\* same entry, flags and network events: the same content of the server
\* and the same returned value, Err when the pipeline failed.
C37_SingleAsMultiple ==
    (ccall.op = "set_multiple" /\ Len(ccall.entries) = 1) =>
        \A n \in AppliedOf(ccall) :
            LET s == set_single(ccall.before, ccall.entries[1], ccall.symmetric,
                                ccall.overwrite, ccall.conn, n)
            IN  /\ s.db = db
                /\ s.res = ccall.res

----------------------------------------------------------------------------
(* RedisAuth called directly, as the Online arms and any other owner of a  *)
(* RedisAuth call it (redis_auth.rs:16-47), for accounts whose usernames   *)
(* are chosen by their users when the account is created: any non-empty    *)
(* string that is not taken (api.rs:52, :72).  The entries with a user id  *)
(* as key are those of migrate_to_online.                                  *)

\* a uuid that Uuid::new_v4 does not produce in the run: one a user made up
ForeignUuid == MaxTokens + 1

\* the usernames a new account may choose when nxt tokens have been
\* generated: some text, the text of a token seen so far, the text of some
\* other uuid
NameChoices(nxt) ==
    {Txt(1), Uuid_to_string(ForeignUuid)}
    \cup {Uuid_to_string(t) : t \in {x \in Uuids : x <= nxt}}

\* the uuids a client may present: generated ones, one nobody was given,
\* one made up
PresentedUuids(nxt) == {x \in Uuids : x <= nxt + 1} \cup {ForeignUuid}

\* what the network does to one RedisAuth call
NetKinds == {"ok", "noconn", "dropped", "other"}

RedisAuthInit ==
    /\ up = TRUE
    /\ store = "Online"
    /\ misses = 0
    /\ tokens = OfflineAuth_new
    /\ db = << >>
    /\ next = 0
    /\ issuedTo = [t \in Uuids |-> 0]
    /\ last = NoCall
    /\ ccall = NoCacheCall
    /\ pc = [h \in Handlers |-> "idle"]
    /\ lock = 0
    /\ thread = 0
    /\ elapsed = 0
    /\ req = [h \in Handlers |-> "none"]
    /\ names = [u \in UserIds |-> EmptyStr]

\* the variables RedisAuth and its callers here do not touch
RedisAuthFrame ==
    UNCHANGED <<store, misses, tokens, up, ccall, pc, lock, thread, elapsed, req>>

\* the record of a RedisAuth call
RedisAuthRecord(op, u, t, res, net) ==
    [NoCall EXCEPT !.op = op, !.u = u, !.s = Uuid_to_string(t), !.tok = t,
                   !.res = res, !.cause = net]

\* create_account (api.rs:46-76): the username is not empty and not taken
CreateAccount(u, n) ==
    /\ names[u] = EmptyStr
    /\ n # EmptyStr
    /\ \A v \in UserIds : names[v] # n
    /\ names' = [names EXCEPT ![u] = n]
    /\ UNCHANGED <<db, next, issuedTo, last>>
    /\ RedisAuthFrame

\* redis.generate_for_user(user_id, username).await
GenerateForUser(u) ==
    /\ names[u] # EmptyStr
    /\ next < MaxTokens
    /\ \E net \in {"ok", "noconn", "dropped"} :
          LET r == RedisAuth_generate_for_user(db, u, names[u], next + 1,
                                               net # "noconn",
                                               IF net = "ok" THEN 2 ELSE 0)
          IN  /\ db' = r.db
              /\ issuedTo' = IF r.ok THEN [issuedTo EXCEPT ![next + 1] = u]
                             ELSE issuedTo
              /\ last' = RedisAuthRecord("redis.generate_for_user", u, next + 1,
                                         IF r.ok THEN "Ok(uuid)" ELSE "Err(())", net)
    /\ next' = next + 1
    /\ UNCHANGED names
    /\ RedisAuthFrame

\* migrate_to_online for an OfflineAuth that issued one token, for user u
MigrateOne(u) ==
    /\ names[u] # EmptyStr
    /\ next < MaxTokens
    /\ \E net \in {"ok", "noconn", "dropped"} :
          LET reg == OfflineAuth_generate_for_user(OfflineAuth_new, u, next + 1)
              m == migrate_to_online(reg, db, <<u>>, net # "noconn",
                                     IF net = "ok" THEN 1 ELSE 0)
          IN  /\ db' = m.db
              /\ last' = RedisAuthRecord("migrate_to_online", u, next + 1,
                                         IF m.ok THEN "Ok(())" ELSE "Err(())", net)
    /\ issuedTo' = [issuedTo EXCEPT ![next + 1] = u]
    /\ next' = next + 1
    /\ UNCHANGED names
    /\ RedisAuthFrame

\* redis.validate_username(username, token).await, whose Ok the Online arm
\* of AuthService::validate returns as it is (auth.rs:100-102)
ValidateUsername(u, t) ==
    /\ names[u] # EmptyStr
    /\ \E net \in NetKinds :
          last' = RedisAuthRecord("redis.validate_username", u, t,
                                  validate_username(db, names[u], t, net), net)
    /\ UNCHANGED <<db, next, issuedTo, names>>
    /\ RedisAuthFrame

\* redis.validate(user_id, token).await
ValidateById(u, t) ==
    /\ names[u] # EmptyStr
    /\ \E net \in NetKinds :
          last' = RedisAuthRecord("redis.validate", u, t,
                                  RedisAuth_validate(db, u, t, net), net)
    /\ UNCHANGED <<db, next, issuedTo, names>>
    /\ RedisAuthFrame

RedisAuthNext ==
    \/ \E u \in UserIds, n \in NameChoices(next) : CreateAccount(u, n)
    \/ \E u \in UserIds : GenerateForUser(u)
    \/ \E u \in UserIds : MigrateOne(u)
    \/ \E u \in UserIds, t \in PresentedUuids(next) : ValidateUsername(u, t)
    \/ \E u \in UserIds, t \in PresentedUuids(next) : ValidateById(u, t)
    \/ Elapse

RedisAuthSpec == RedisAuthInit /\ [][RedisAuthNext]_vars

\* C31: validate answers Ok(true) only for a token that an earlier issuance
\* returned for that same user id.  For the Online arm: whenever
\* validate_username, whose answer the arm returns as it is, says Ok(true)
\* for the username of an account and a uuid, that uuid was issued for
\* that account.
C31_NoFalseAcceptance ==
    (last.op = "redis.validate_username" /\ last.res = "Ok(true)")
        => (last.tok \in Uuids /\ issuedTo[last.tok] = last.u)

\* C38: when the Redis server answered, RedisAuth::validate returns
\* Ok(true) if the token stored under the user id is the given one and
\* Ok(false) otherwise, also when nothing is stored under the user id.
C38_AbsentIsFalse ==
    (last.op = "redis.validate" /\ last.cause = "ok") =>
        LET k == u64_to_string(last.u)
        IN  IF k \in DOMAIN db /\ Uuid_parse_str(db[k].value) = last.tok
            THEN last.res = "Ok(true)"
            ELSE last.res = "Ok(false)"

============================================================================
